---- MODULE Spec2Model ----
(***************************************************************************)
(* A model of rustobject.rs: the layout arithmetic of PyRustObject<T, B>,  *)
(* its alloc / dealloc chain, the reference-counted handles, and the       *)
(* PyRustTypeBuilder stages (new, base, doc, finish).                      *)
(*                                                                         *)
(* A static composite type PyRustObject<T1, PyRustObject<T2, ... PyObject>>*)
(* is a sequence of payload types <<T1, T2, ...>>, outermost first; the    *)
(* empty sequence is PyObject.  A payload type is [size, align].           *)
(* An allocation is a sequence of byte cells; cell <<v, i>> is byte i of   *)
(* the representation of payload value v, <<0, 0>> a zero byte.            *)
(***************************************************************************)
EXTENDS Integers, Sequences, FiniteSets

\* ---------------------------------------------------------------- bounds
MaxTypes == 2
MaxHandles == 2
MaxDocCalls == 2
MaxBaseSize == 24
MaxAlignment == 9

\* mem::size_of::<ffi::PyObject>() on a 64-bit build: ob_refcnt and ob_type
HeaderSize == 16

Garbage == 0 - 1

TypeIds == 1 .. MaxTypes
BufIds == 1 .. MaxDocCalls
Names == {"Point", "ColoredPoint"}

\* the payload types T the builders are instantiated with: (), u8, u32 and
\* [u16; 3]; size_of::<T>() is a multiple of min_align_of::<T>()
UnitType == [size |-> 0, align |-> 1]
PayloadTypes ==
    {UnitType, [size |-> 1, align |-> 1], [size |-> 4, align |-> 4],
     [size |-> 6, align |-> 2]}

\* the values of a payload type; a zero-sized type has one value
Values(T) == IF T.size = 0 THEN {0} ELSE {1, 2}

\* a &str argument of doc(): its bytes ("", "hi", "hello"), and the byte that
\* follows them in memory
DocStrs ==
    [bytes : {<<>>, <<104, 105>>, <<104, 101, 108, 108, 111>>}, next : {0, 33}]

VARIABLES ht, heap, moduleDict, obj, lastAlloc, panicked, inS, inA, outOffset

vars == <<ht, heap, moduleDict, obj, lastAlloc, panicked, inS, inA, outOffset>>

\* ------------------------------------------------------- layout arithmetic

offset_rounds_down_of(S, A) == (S \div A) * A

\* PyRustObject::offset on (B::size(), min_align_of::<T>())
offset_of(S, A) == ((S + A - 1) \div A) * A

RECURSIVE size(_)

offset_rounds_down(chain) ==
    offset_rounds_down_of(size(Tail(chain)), Head(chain).align)

\* PyRustObject::<T, B>::offset(), chain = <<T>> \o B
offset(chain) == offset_of(size(Tail(chain)), Head(chain).align)

size_without_payload(chain) ==
    IF chain = <<>> THEN HeaderSize
    ELSE offset(chain)

\* PythonBaseObject::size(): PyObject's, and PyRustObject<T, B>'s
size(chain) ==
    IF chain = <<>> THEN HeaderSize
    ELSE offset(chain) + Head(chain).size

\* ------------------------------------------------------------ raw memory

ZeroMem(n) == [i \in 1 .. n |-> <<0, 0>>]

\* ptr::write of a T at byte offset off
ptr_write(mem, off, T, v) ==
    [i \in 1 .. Len(mem) |->
        IF off < i /\ i <= off + T.size THEN <<v, i - off - 1>> ELSE mem[i]]

\* reading a T at byte offset off
ptr_read(mem, off, T) ==
    IF off + T.size > Len(mem) THEN Garbage
    ELSE IF T.size = 0 THEN 0
    ELSE IF \A i \in 0 .. T.size - 1 : mem[off + 1 + i] = <<mem[off + 1][1], i>>
         THEN mem[off + 1][1]
         ELSE Garbage

Event(kind, layer, val) == [kind |-> kind, layer |-> layer, val |-> val]

\* ------------------------------------------------------ alloc and dealloc

\* PyObject::alloc: tp_alloc(ty, 0) gives tp_basicsize zeroed bytes, or null
PyObject_alloc(basicsize, ok) ==
    IF ok
    THEN [ok |-> TRUE, mem |-> ZeroMem(basicsize),
          events |-> <<Event("tp_alloc", 0, 0)>>]
    ELSE [ok |-> FALSE, mem |-> <<>>,
          events |-> <<Event("tp_alloc_null", 0, 0)>>]

RECURSIVE alloc(_, _, _, _)

alloc_ignores_failure(basicsize, chain, init, ok) ==
    IF chain = <<>> THEN PyObject_alloc(basicsize, ok)
    ELSE LET r == alloc(basicsize, Tail(chain), Tail(init), ok)
         IN [ok |-> r.ok,
             mem |-> ptr_write(r.mem, offset(chain), Head(chain), Head(init)),
             events |-> Append(r.events,
                               Event("write", Len(chain), Head(init)))]

\* PyRustObject::alloc(ty, (val, base_val)); layer Len(chain) is the
\* composite whose alloc runs, 1 the innermost
alloc(basicsize, chain, init, ok) ==
    IF chain = <<>> THEN PyObject_alloc(basicsize, ok)
    ELSE LET r == alloc(basicsize, Tail(chain), Tail(init), ok)
         IN IF ~r.ok THEN r
            ELSE [ok |-> TRUE,
                  mem |-> ptr_write(r.mem, offset(chain), Head(chain), Head(init)),
                  events |-> Append(r.events,
                                    Event("write", Len(chain), Head(init)))]

RECURSIVE dealloc(_, _, _)

dealloc_frees_first(chain, mem, events) ==
    IF chain = <<>> THEN Append(events, Event("tp_free", 0, 0))
    ELSE Append(dealloc(Tail(chain), mem, events),
                Event("drop", Len(chain), ptr_read(mem, offset(chain), Head(chain))))

\* PyRustObject::dealloc, ending in PyObject::dealloc (tp_free): the events
\* it performs, appended to events
dealloc(chain, mem, events) ==
    IF chain = <<>> THEN Append(events, Event("tp_free", 0, 0))
    ELSE dealloc(Tail(chain), mem,
                 Append(events, Event("drop", Len(chain),
                                      ptr_read(mem, offset(chain), Head(chain)))))

\* tp_dealloc_callback::<T, B>
tp_dealloc_callback(chain, mem, events) == dealloc(chain, mem, events)

\* PyRustObject::get on a handle of static type chain
get(o, chain) == ptr_read(o.mem, offset(chain), Head(chain))

\* PyRustObject::base: the same object, as the base type
base(chain) == Tail(chain)


\* ----------------------------------------------------------------- state

\* a slot of the heap-type table no builder has used yet
NoType ==
    [stage |-> "none", T |-> UnitType, B |-> <<>>, ht_name |-> "",
     tp_base |-> 0, tp_basicsize |-> 0, tp_dealloc |-> <<>>, tp_doc |-> 0,
     target_module |-> FALSE, ob_refcnt |-> 0,
     ready |-> "none", reg |-> "none", result |-> "none", base_calls |-> 0,
     doc_calls |-> 0, doc_str |-> <<>>]

NoBuf == [state |-> "unused", bytes |-> <<>>, frees |-> 0]

NoObj ==
    [state |-> "none", ty |-> 0, ob_refcnt |-> 0, handles |-> 0, peak |-> 0,
     mem |-> <<>>, init |-> <<>>, events |-> <<>>]

NoAlloc == [res |-> "none", ty |-> 0, events |-> <<>>]

\* the static type PyRustObject<T, B> of builder or type k
chain_of(k) == <<ht[k].T>> \o ht[k].B

RECURSIVE InitVals(_)
\* the values of InitType = (T, B::InitType), flattened, outermost first
InitVals(chain) ==
    IF chain = <<>> THEN {<<>>}
    ELSE {<<v>> \o rest : v \in Values(Head(chain)), rest \in InitVals(Tail(chain))}

Init ==
    /\ ht = [k \in TypeIds |-> NoType]
    /\ heap = [b \in BufIds |-> NoBuf]
    /\ moduleDict = [n \in Names |-> 0]
    /\ obj = NoObj
    /\ lastAlloc = NoAlloc
    /\ panicked = FALSE
    /\ inS = 0
    /\ inA = 1
    /\ outOffset = Garbage

\* ------------------------------------------------------------ the builder

FreshType(k) ==
    /\ ht[k].stage = "none"
    /\ \A j \in TypeIds : j < k => ht[j].stage # "none"

\* PyRustTypeBuilder::new, with target_module as the caller leaves it
NewBuilder(k, T, name, target, ok) ==
    /\ ~panicked
    /\ FreshType(k)
    /\ IF ok
       THEN /\ ht' = [ht EXCEPT ![k] =
                        [NoType EXCEPT !.stage = "building", !.T = T,
                                       !.ht_name = name, !.ob_refcnt = 1,
                                       !.target_module = target]]
            /\ UNCHANGED panicked
       ELSE /\ panicked' = TRUE
            /\ UNCHANGED ht
    /\ UNCHANGED <<heap, moduleDict, obj, lastAlloc, inS, inA, outOffset>>

new(k, T, name, ok) == NewBuilder(k, T, name, FALSE, ok)

new_typebuilder_for_module(k, T, name, ok) == NewBuilder(k, T, name, TRUE, ok)

\* base() is a method of PyRustTypeBuilder<'p, T> alone: B is still PyObject
base_applicable(b, k) ==
    /\ ht[b].stage = "building"
    /\ ht[b].B = <<>>
    /\ ht[k].stage = "finished"

Py_XDECREF_type(h, k) ==
    IF k = 0 THEN h ELSE [h EXCEPT ![k].ob_refcnt = @ - 1]

Py_INCREF_type_forgotten(h, k) == h

Py_INCREF_type(h, k) == [h EXCEPT ![k].ob_refcnt = @ + 1]

\* PyRustTypeBuilder::base(base_type)
builder_base(b, k) ==
    /\ ~panicked
    /\ base_applicable(b, k)
    /\ LET released == Py_XDECREF_type(ht, ht[b].tp_base)
           declared == [released EXCEPT ![b].tp_base = k,
                                        ![b].B = chain_of(k),
                                        ![b].base_calls = @ + 1]
       IN ht' = Py_INCREF_type(declared, k)
    /\ UNCHANGED <<heap, moduleDict, obj, lastAlloc, panicked, inS, inA, outOffset>>

PyObject_Free(h, p) ==
    [h EXCEPT ![p].state = "freed", ![p].bytes = <<>>, ![p].frees = @ + 1]

FreshBuf(p) ==
    /\ heap[p].state = "unused"
    /\ \A q \in BufIds : q < p => heap[q].state # "unused"

\* ptr::copy_nonoverlapping(doc_str.as_ptr(), p, count): the first count
\* bytes found at the address of the string
copy_nonoverlapping(s, count) == SubSeq(s.bytes \o <<s.next>>, 1, count)

\* PyRustTypeBuilder::doc(doc_str); ok tells whether PyObject_Malloc succeeds
doc(k, s, p, ok) ==
    /\ ~panicked
    /\ ht[k].stage = "building"
    /\ FreshBuf(p)
    /\ LET released == IF ht[k].tp_doc # 0 THEN PyObject_Free(heap, ht[k].tp_doc)
                       ELSE heap
       IN IF ok
          THEN /\ ht' = [ht EXCEPT ![k].tp_doc = p, ![k].doc_calls = @ + 1,
                                    ![k].doc_str = s.bytes]
               /\ heap' = [released EXCEPT ![p] =
                             [state |-> "live",
                              bytes |-> copy_nonoverlapping(s, Len(s.bytes) + 1),
                              frees |-> 0]]
               /\ UNCHANGED panicked
          ELSE /\ ht' = [ht EXCEPT ![k].tp_doc = 0, ![k].doc_calls = @ + 1,
                                    ![k].doc_str = s.bytes]
               /\ heap' = released
               /\ panicked' = TRUE
    /\ UNCHANGED <<moduleDict, obj, lastAlloc, inS, inA, outOffset>>

declared_size_ignores_base(k) == size(<<ht[k].T>>)

\* PyRustObject::<T, B>::size() as finish() stores it in tp_basicsize
declared_size(k) == size(chain_of(k))

registers_before_ready(target, readyOk) == target

\* whether finish() reaches m.dict().set_item(name, type)
registers(target, readyOk) == readyOk /\ target

\* PyRustTypeBuilder::finish(); readyOk and regOk are the outcomes of
\* PyType_Ready and of set_item
finish(k, readyOk, regOk) ==
    /\ ~panicked
    /\ ht[k].stage = "building"
    /\ LET slots == [ht[k] EXCEPT !.tp_basicsize = declared_size(k),
                                  !.tp_dealloc = <<chain_of(k)>>,
                                  !.ready = IF readyOk THEN "ok" ELSE "fail"]
           attempt == registers(ht[k].target_module, readyOk)
           okay == readyOk /\ (attempt => regOk)
       IN /\ ht' = [ht EXCEPT ![k] =
                      [slots EXCEPT !.reg = IF ~attempt THEN "none"
                                            ELSE IF regOk THEN "ok" ELSE "fail",
                                    !.result = IF okay THEN "Ok" ELSE "Err",
                                    !.stage = IF okay THEN "finished" ELSE "failed"]]
          /\ moduleDict' = IF attempt /\ regOk
                           THEN [moduleDict EXCEPT ![ht[k].ht_name] = k]
                           ELSE moduleDict
    /\ UNCHANGED <<heap, obj, lastAlloc, panicked, inS, inA, outOffset>>

\* ------------------------------------------------------------- instances

\* PyRustType::create_instance(val, base_val); ok tells whether tp_alloc
\* succeeds.  One instance is followed from its creation to its teardown.
create_instance(k, init, ok) ==
    /\ ~panicked
    /\ ht[k].stage = "finished"
    /\ obj.state = "none"
    /\ init \in InitVals(chain_of(k))
    /\ LET r == alloc(ht[k].tp_basicsize, chain_of(k), init, ok)
       IN /\ lastAlloc' = [res |-> IF r.ok THEN "Ok" ELSE "Err", ty |-> k,
                           events |-> r.events]
          /\ IF r.ok
             THEN /\ obj' = [state |-> "live", ty |-> k, ob_refcnt |-> 1,
                             handles |-> 1, peak |-> 1, mem |-> r.mem,
                             init |-> init,
                             events |-> r.events]
                  /\ UNCHANGED panicked
             ELSE /\ panicked' = TRUE
                  /\ UNCHANGED obj
    /\ UNCHANGED <<ht, heap, moduleDict, inS, inA, outOffset>>

Py_INCREF_forgotten(o) == o

Py_INCREF(o) == [o EXCEPT !.ob_refcnt = @ + 1]

\* Clone for PyRustObject: a second handle on the same object
clone ==
    /\ ~panicked
    /\ obj.handles > 0
    /\ obj.handles < MaxHandles
    /\ obj' = [Py_INCREF(obj) EXCEPT
                  !.handles = @ + 1,
                  !.peak = IF obj.handles + 1 > @ THEN obj.handles + 1 ELSE @]
    /\ UNCHANGED <<ht, heap, moduleDict, lastAlloc, panicked, inS, inA, outOffset>>

\* Py_DECREF: at zero the runtime calls Py_TYPE(obj)->tp_dealloc
Py_DECREF(o) ==
    IF o.state # "live"
    THEN [o EXCEPT !.events = Append(@, Event("decref_freed", 0, 0))]
    ELSE IF o.ob_refcnt > 1 THEN [o EXCEPT !.ob_refcnt = @ - 1]
    ELSE [o EXCEPT !.ob_refcnt = 0, !.state = "freed", !.mem = <<>>,
                   !.events = tp_dealloc_callback(ht[o.ty].tp_dealloc[1],
                                                  o.mem, o.events)]

\* a PyRustObject handle goes out of scope: its obj field is dropped
drop ==
    /\ ~panicked
    /\ obj.handles > 0
    /\ obj' = [Py_DECREF(obj) EXCEPT !.handles = @ - 1]
    /\ UNCHANGED <<ht, heap, moduleDict, lastAlloc, panicked, inS, inA, outOffset>>

\* Types built with new() alone, an instance and the handles on it.
Next ==
    \/ \E k \in TypeIds, T \in PayloadTypes, ok \in BOOLEAN : new(k, T, "Point", ok)
    \/ \E b \in TypeIds, k \in TypeIds : builder_base(b, k)
    \/ \E k \in TypeIds, readyOk \in BOOLEAN : finish(k, readyOk, TRUE)
    \/ \E k \in TypeIds, ok \in BOOLEAN :
          \E init \in InitVals(chain_of(k)) : create_instance(k, init, ok)
    \/ clone
    \/ drop

Spec == Init /\ [][Next]_vars

\* The builder stages: names, target module, both outcomes of PyType_Ready
\* and of the registration.
NextBuilder ==
    \/ \E k \in TypeIds, T \in PayloadTypes, n \in Names, ok \in BOOLEAN :
          new(k, T, n, ok)
    \/ \E k \in TypeIds, T \in PayloadTypes, n \in Names, ok \in BOOLEAN :
          new_typebuilder_for_module(k, T, n, ok)
    \/ \E b \in TypeIds, k \in TypeIds : builder_base(b, k)
    \/ \E k \in TypeIds, readyOk \in BOOLEAN, regOk \in BOOLEAN : finish(k, readyOk, regOk)

SpecBuilder == Init /\ [][NextBuilder]_vars

\* The doc strings of the builders.
NextDoc ==
    \/ \E k \in TypeIds, ok \in BOOLEAN : new(k, UnitType, "Point", ok)
    \/ \E k \in TypeIds, s \in DocStrs, p \in BufIds, ok \in BOOLEAN : doc(k, s, p, ok)
    \/ \E k \in TypeIds, readyOk \in BOOLEAN : finish(k, readyOk, TRUE)

SpecDoc == Init /\ [][NextDoc]_vars

\* ------------------------------------------- offset() as a pure function

InitOffset ==
    /\ ht = [k \in TypeIds |-> NoType]
    /\ heap = [b \in BufIds |-> NoBuf]
    /\ moduleDict = [n \in Names |-> 0]
    /\ obj = NoObj
    /\ lastAlloc = NoAlloc
    /\ panicked = FALSE
    /\ inS \in 0 .. MaxBaseSize
    /\ inA \in 1 .. MaxAlignment
    /\ outOffset = Garbage

ComputeOffset ==
    /\ outOffset = Garbage
    /\ outOffset' = offset_of(inS, inA)
    /\ UNCHANGED <<ht, heap, moduleDict, obj, lastAlloc, panicked, inS, inA>>

NextOffset == ComputeOffset

SpecOffset == InitOffset /\ [][NextOffset]_vars

\* ------------------------------------------------------------ properties

\* the composite of layer j of chain c: base() applied j - 1 times
Layer(c, j) == SubSeq(c, j, Len(c))

Count(events, kind) ==
    Cardinality({i \in DOMAIN events : events[i].kind = kind})

CountLayer(events, kind, layer) ==
    Cardinality({i \in DOMAIN events :
                    events[i].kind = kind /\ events[i].layer = layer})

\* C1: for every base size S and alignment A > 0, offset() is the smallest
\* multiple of A that is >= S: offset % A = 0, offset >= S, offset - A < S.
C1_OffsetSmallestMultiple ==
    outOffset # Garbage =>
        /\ outOffset % inA = 0
        /\ outOffset >= inS
        /\ outOffset - inA < inS

C1_Witness == inS = 17 /\ inA = 4 /\ outOffset = 20

\* C2: while a handle is alive the instance is allocated and get() returns
\* the payload value given to create_instance; through base() each inner
\* layer's get() returns the value of the base initializer, so no layer's
\* write has changed another layer's payload.
C2_RoundTrip ==
    obj.handles > 0 =>
        /\ obj.state = "live"
        /\ \A j \in 1 .. Len(chain_of(obj.ty)) :
              get(obj, Layer(chain_of(obj.ty), j)) = obj.init[j]

C2_Witness ==
    /\ obj.handles > 0
    /\ Len(chain_of(obj.ty)) = 2
    /\ \A j \in 1 .. 2 : chain_of(obj.ty)[j].size > 0
    /\ obj.init = <<1, 2>>
    /\ get(obj, chain_of(obj.ty)) = 1
    /\ get(obj, base(chain_of(obj.ty))) = 2

\* the events of the finalizer: what follows the tp_alloc and the writes
Teardown == SubSeq(obj.events, Len(obj.init) + 2, Len(obj.events))

\* C3: the finalizer drops the payloads from the outermost layer to the
\* innermost, each with the value stored in it, and calls tp_free last.
C3_DestructionOrder ==
    obj.state = "freed" =>
        LET n == Len(obj.init)
        IN /\ Len(Teardown) = n + 1
           /\ \A j \in 1 .. n :
                 Teardown[j] = Event("drop", n + 1 - j, obj.init[j])
           /\ Teardown[n + 1] = Event("tp_free", 0, 0)

C3_Witness ==
    /\ obj.state = "freed"
    /\ Len(obj.init) = 2
    /\ Teardown[1].layer = 2
    /\ Teardown[2].layer = 1
    /\ Teardown[3].kind = "tp_free"

\* C4: clone only increments the reference count of the one allocation;
\* while a handle is alive nothing is dropped or freed; once the last handle
\* is gone every payload has been dropped exactly once and the allocation
\* freed exactly once.
C4_ExactlyOnceTeardown ==
    obj.state # "none" =>
        /\ Count(obj.events, "tp_alloc") = 1
        /\ \A j \in 1 .. Len(obj.init) : CountLayer(obj.events, "write", j) = 1
        /\ Count(obj.events, "decref_freed") = 0
        /\ obj.handles > 0 =>
              /\ obj.state = "live"
              /\ obj.ob_refcnt = obj.handles
              /\ Count(obj.events, "drop") = 0
              /\ Count(obj.events, "tp_free") = 0
        /\ obj.handles = 0 =>
              /\ obj.state = "freed"
              /\ \A j \in 1 .. Len(obj.init) : CountLayer(obj.events, "drop", j) = 1
              /\ Count(obj.events, "drop") = Len(obj.init)
              /\ Count(obj.events, "tp_free") = 1

C4_Witness ==
    /\ obj.state = "freed"
    /\ obj.handles = 0
    /\ obj.peak = 2
    /\ Count(obj.events, "tp_free") = 1

\* the declared size of the base of type k
BaseBasicsize(k) ==
    IF ht[k].tp_base = 0 THEN HeaderSize ELSE ht[ht[k].tp_base].tp_basicsize

\* C5: a finished type's tp_basicsize is offset() + size_of(T), offset()
\* being computed from the size of its base; its tp_dealloc is the dealloc
\* of the same composite; an instance is allocated with that size.
C5_DeclaredSize ==
    /\ \A k \in TypeIds :
          ht[k].stage = "finished" =>
              /\ ht[k].tp_basicsize = offset(chain_of(k)) + ht[k].T.size
              /\ offset(chain_of(k)) = offset_of(BaseBasicsize(k), ht[k].T.align)
              /\ ht[k].tp_dealloc = <<chain_of(k)>>
    /\ obj.state = "live" => Len(obj.mem) = ht[obj.ty].tp_basicsize

C5_Witness ==
    /\ obj.state = "live"
    /\ ht[obj.ty].tp_base # 0
    /\ ht[obj.ty].tp_basicsize > ht[ht[obj.ty].tp_base].tp_basicsize
    /\ Len(obj.mem) = ht[obj.ty].tp_basicsize

\* C6: alloc obtains the memory first and then writes each payload once,
\* innermost layer first; when the allocator fails it returns the failure,
\* writes nothing and yields no instance.
C6_AllocOrderAndFailure ==
    /\ lastAlloc.res = "Ok" =>
          LET n == Len(chain_of(lastAlloc.ty))
          IN /\ Len(lastAlloc.events) = n + 1
             /\ lastAlloc.events[1].kind = "tp_alloc"
             /\ \A j \in 1 .. n :
                   /\ lastAlloc.events[j + 1].kind = "write"
                   /\ lastAlloc.events[j + 1].layer = j
    /\ lastAlloc.res = "Err" =>
          /\ lastAlloc.events = <<Event("tp_alloc_null", 0, 0)>>
          /\ obj.state = "none"
          /\ obj.handles = 0

C6_Witness ==
    /\ lastAlloc.res = "Err"
    /\ Len(chain_of(lastAlloc.ty)) = 2
    /\ Count(lastAlloc.events, "write") = 0
    /\ obj.state = "none"

InDict(k) == \E n \in Names : moduleDict[n] = k

\* C7: when PyType_Ready fails finish() returns the failure and registers
\* nothing; when it succeeds a builder with a target module registers the
\* type under its own name, a failed registration being returned as the
\* failure; a builder without a target module registers nothing.
C7_FinishFailures ==
    /\ \A k \in TypeIds :
          /\ ht[k].ready = "fail" =>
                /\ ht[k].result = "Err"
                /\ ht[k].stage = "failed"
                /\ ht[k].reg = "none"
                /\ ~InDict(k)
          /\ (ht[k].ready = "ok" /\ ht[k].target_module) =>
                /\ ht[k].reg \in {"ok", "fail"}
                /\ ht[k].reg = "ok" =>
                      /\ ht[k].result = "Ok"
                      /\ ht[k].stage = "finished"
                      /\ moduleDict[ht[k].ht_name] # 0
                      /\ ht[moduleDict[ht[k].ht_name]].reg = "ok"
                /\ ht[k].reg = "fail" =>
                      /\ ht[k].result = "Err"
                      /\ ht[k].stage = "failed"
                      /\ ~InDict(k)
          /\ (ht[k].ready = "ok" /\ ~ht[k].target_module) =>
                /\ ht[k].reg = "none"
                /\ ht[k].result = "Ok"
                /\ ht[k].stage = "finished"
                /\ ~InDict(k)
    /\ \A n \in Names : moduleDict[n] # 0 => ht[moduleDict[n]].ht_name = n

C7_Witness ==
    \E k \in TypeIds, j \in TypeIds :
        /\ ht[k].target_module /\ ht[k].ready = "fail" /\ ht[k].result = "Err"
        /\ ht[j].target_module /\ ht[j].reg = "ok" /\ moduleDict[ht[j].ht_name] = j

Referrers(k) == {b \in TypeIds : ht[b].tp_base = k}

BaseBalanced ==
    \A k \in TypeIds :
        ht[k].stage # "none" => ht[k].ob_refcnt = 1 + Cardinality(Referrers(k))

\* C8 as stated: base() can be applied again to any builder that is not yet
\* finished, and the references on the bases stay balanced.
C8_BaseRepeatable ==
    /\ \A b \in TypeIds, k \in TypeIds :
          (ht[b].stage = "building" /\ ht[k].stage = "finished") =>
              base_applicable(b, k)
    /\ BaseBalanced

\* C8, amended: base() applies at most once to a builder, while its static
\* base is PyObject; it declares the supplied finished type as tp_base,
\* finds no earlier base to release and acquires exactly one reference, so
\* a type's reference count is its owner's one plus one per builder whose
\* declared base it is.
C8_BaseOnceBalanced ==
    /\ \A b \in TypeIds :
          /\ ht[b].base_calls <= 1
          /\ ht[b].base_calls = 0 => (ht[b].tp_base = 0 /\ ht[b].B = <<>>)
          /\ ht[b].base_calls = 1 =>
                /\ ht[b].tp_base # 0
                /\ ht[ht[b].tp_base].stage = "finished"
                /\ ht[b].B = chain_of(ht[b].tp_base)
                /\ \A k \in TypeIds : ~base_applicable(b, k)
    /\ BaseBalanced

C8_Witness ==
    \E b \in TypeIds :
        /\ ht[b].stage = "building"
        /\ ht[b].base_calls = 1
        /\ ht[ht[b].tp_base].ob_refcnt = 2

LiveBufs == {p \in BufIds : heap[p].state = "live"}

\* what holds of the doc buffers whatever bytes they hold: one live buffer
\* per builder that has a doc string, installed in tp_doc, and every other
\* buffer handed out freed once
DocBuffersBalanced ==
    ~panicked =>
        /\ \A k \in TypeIds :
              ht[k].doc_calls >= 1 =>
                  (ht[k].tp_doc # 0 /\ heap[ht[k].tp_doc].state = "live")
        /\ \A k \in TypeIds : ht[k].doc_calls = 0 => ht[k].tp_doc = 0
        /\ \A j \in TypeIds, k \in TypeIds :
              (j # k /\ ht[j].tp_doc # 0) => ht[j].tp_doc # ht[k].tp_doc
        /\ LiveBufs = {ht[k].tp_doc : k \in TypeIds} \ {0}
        /\ \A p \in BufIds :
              /\ heap[p].state = "freed" => heap[p].frees = 1
              /\ heap[p].state = "live" => heap[p].frees = 0

\* C9: after n >= 1 calls of doc() one buffer is live and installed, the
\* earlier ones are freed once, and the live buffer holds the bytes of the
\* last text followed by a zero byte.
C9_DocBuffer ==
    /\ DocBuffersBalanced
    /\ ~panicked =>
          \A k \in TypeIds :
              ht[k].doc_calls >= 1 =>
                  heap[ht[k].tp_doc].bytes = ht[k].doc_str \o <<0>>

\* C10: every layer's payload slot lies inside the allocation of the
\* declared size, starts at or after the end of its base's footprint (the
\* header and every inner slot), and a derived type declares at least the
\* size of its base type.
C10_LayoutSafety ==
    /\ \A k \in TypeIds :
          ht[k].stage = "finished" =>
              LET c == chain_of(k)
              IN /\ \A j \in 1 .. Len(c) :
                       /\ offset(Layer(c, j)) + c[j].size <= ht[k].tp_basicsize
                       /\ offset(Layer(c, j)) >= HeaderSize
                       /\ offset(Layer(c, j)) >= size(Layer(c, j + 1))
                       /\ \A i \in j + 1 .. Len(c) :
                             offset(Layer(c, j)) >= offset(Layer(c, i)) + c[i].size
                 /\ ht[k].tp_basicsize >= BaseBasicsize(k)
    /\ obj.state = "live" =>
          \A j \in 1 .. Len(chain_of(obj.ty)) :
              offset(Layer(chain_of(obj.ty), j)) + chain_of(obj.ty)[j].size
                  <= Len(obj.mem)

C10_Witness ==
    /\ obj.state = "live"
    /\ Len(chain_of(obj.ty)) = 2
    /\ offset(chain_of(obj.ty)) > size(base(chain_of(obj.ty)))
    /\ chain_of(obj.ty)[1].size > 0
    /\ chain_of(obj.ty)[2].size > 0

====
